---- MODULE Spec2Model ----
(***************************************************************************)
(* Request-scoped session lifecycle of the Litestar adapter                *)
(* (advanced_alchemy/extensions/litestar/plugins/init/config/asyncio.py)   *)
(* with its application lifecycle hooks, and the write operations of the   *)
(* repository service (advanced_alchemy/service/_async.py) over a table    *)
(* of one model type.                                                      *)
(*                                                                         *)
(* A session object is modelled by the index of the session_maker() call   *)
(* that created it; the calls made on it (commit, rollback, close) are     *)
(* recorded per session, as a mock of AsyncSession would record them.      *)
(***************************************************************************)
EXTENDS Integers, Sequences, FiniteSets, TLC

(* ------------------------------ bounds -------------------------------- *)

\* number of session_maker() calls over a run
MaxSessions == 2

SessionIds == 1..MaxSessions

\* the request scopes of two concurrent requests
Scopes == {"r1", "r2"}
\* owner of a session index no session_maker() call has produced yet
NoScope == "-"

(* --------------------------- message universe ------------------------- *)

HTTP_RESPONSE_START == "http.response.start"
HTTP_RESPONSE_BODY == "http.response.body"
HTTP_DISCONNECT == "http.disconnect"
WEBSOCKET_DISCONNECT == "websocket.disconnect"
WEBSOCKET_CLOSE == "websocket.close"

\* the events on which a session is closed and removed from the scope
SESSION_TERMINUS_ASGI_EVENTS ==
    {HTTP_RESPONSE_START, HTTP_DISCONNECT, WEBSOCKET_DISCONNECT, WEBSOCKET_CLOSE}

\* response statuses the host may report: both edges of 200..299 and 300..399
StatusCodes == {199, 200, 201, 299, 300, 301, 399, 400, 404}

\* status codes offered to extra_commit_statuses / extra_rollback_statuses
ExtraCodes == {200, 404}

Messages ==
    {[type |-> HTTP_RESPONSE_START, status |-> c] : c \in StatusCodes}
    \cup {[type |-> t] : t \in {HTTP_RESPONSE_BODY, HTTP_DISCONNECT,
                                WEBSOCKET_DISCONNECT, WEBSOCKET_CLOSE}}

\* Python None for an optional argument; a given value v is <<v>>
None == <<>>
Some(v) == <<v>>
Optional(S) == {None} \cup {Some(v) : v \in S}

\* get_litestar_scope_state(scope, SESSION_SCOPE_KEY) when nothing is stored
NoSession == 0

\* before_send_handler not yet set: the application is not constructed
NoHandler == [kind |-> "none"]

VARIABLES
    handlerCfg,   \* the before_send_handler the application runs with
    makerError,   \* exception raised by autocommit_handler_maker, or "none"
    scopeState,   \* scope -> session stored under SESSION_SCOPE_KEY, or NoSession
    nSessions,    \* number of session_maker() calls so far
    owner,        \* session -> scope whose provide_session created it, or NoScope
    calls,        \* session -> sequence of calls made on it
    ret,          \* the session the latest provide_session call returned
    propagated,   \* the exception the latest hook invocation let through, or "none"
    terminated,   \* scope -> a hook of the scope has received a terminus message
    svc,          \* the latest service call: its error and its repository calls
    app,          \* application state keys, and the dispose calls made on engines
    rows          \* the rows of the model type's table

vars == <<handlerCfg, makerError, scopeState, nSessions, owner, calls, ret,
          propagated, terminated, svc, app, rows>>

(* ------------------------- autocommit_handler_maker ------------------- *)

\* mutant of commit_range: the upper end of the range is included
commit_range_inclusive(commit_on_redirect) ==
    200..(IF ~commit_on_redirect THEN 300 ELSE 400)

\* commit_range = range(200, 300 if not commit_on_redirect else 400)
commit_range(commit_on_redirect) ==
    200..((IF ~commit_on_redirect THEN 300 ELSE 400) - 1)

\* extra_commit_statuses = set() when None (likewise extra_rollback_statuses)
or_empty(extra) == IF extra = None THEN {} ELSE extra[1]

\* mutant of maker_error: only an overlap of more than one status is refused
maker_error_two_shared(extra_commit_statuses, extra_rollback_statuses) ==
    IF Cardinality(or_empty(extra_commit_statuses)
                   \cap or_empty(extra_rollback_statuses)) > 1
    THEN "ValueError"
    ELSE "none"

\* mutant of maker_error: the conflict is reported as the service's error kind
maker_error_repository(extra_commit_statuses, extra_rollback_statuses) ==
    IF Cardinality(or_empty(extra_commit_statuses)
                   \cap or_empty(extra_rollback_statuses)) > 0
    THEN "RepositoryError"
    ELSE "none"

\* the exception autocommit_handler_maker raises, or "none"
maker_error(extra_commit_statuses, extra_rollback_statuses) ==
    IF Cardinality(or_empty(extra_commit_statuses)
                   \cap or_empty(extra_rollback_statuses)) > 0
    THEN "ValueError"
    ELSE "none"

\* the closure returned by autocommit_handler_maker
maker_handler(commit_on_redirect, extra_commit_statuses, extra_rollback_statuses) ==
    [kind |-> "autocommit",
     commit_range |-> commit_range(commit_on_redirect),
     extra_commit_statuses |-> or_empty(extra_commit_statuses),
     extra_rollback_statuses |-> or_empty(extra_rollback_statuses)]

autocommit_handler_maker(commit_on_redirect, extra_commit_statuses, extra_rollback_statuses) ==
    /\ handlerCfg = NoHandler
    /\ makerError = "none"
    /\ LET err == maker_error(extra_commit_statuses, extra_rollback_statuses)
       IN  /\ makerError' = err
           /\ handlerCfg' = IF err = "none"
                            THEN maker_handler(commit_on_redirect,
                                               extra_commit_statuses,
                                               extra_rollback_statuses)
                            ELSE handlerCfg
    /\ UNCHANGED <<scopeState, nSessions, owner, calls, ret, propagated,
                   terminated, svc, app, rows>>

\* SQLAlchemyAsyncConfig.before_send_handler left at its default
use_default_handler ==
    /\ handlerCfg = NoHandler
    /\ makerError = "none"
    /\ handlerCfg' = [kind |-> "default"]
    /\ UNCHANGED <<makerError, scopeState, nSessions, owner, calls, ret,
                   propagated, terminated, svc, app, rows>>

(* ------------------------------ provide_session ----------------------- *)

\* session = session_maker(); set_litestar_scope_state(scope, KEY, session)
make_session(scope) ==
    /\ nSessions < MaxSessions
    /\ nSessions' = nSessions + 1
    /\ owner' = [owner EXCEPT ![nSessions + 1] = scope]
    /\ scopeState' = [scopeState EXCEPT ![scope] = nSessions + 1]
    /\ ret' = nSessions + 1

\* mutant of provide_session: the stored session is not looked up
provide_session_always_new(scope) ==
    /\ handlerCfg # NoHandler
    /\ make_session(scope)
    /\ UNCHANGED <<handlerCfg, makerError, calls, propagated, terminated, svc, app, rows>>

\* mutant of provide_session: the session is looked up in process-wide state
provide_session_shared(scope) ==
    /\ handlerCfg # NoHandler
    /\ LET stored == {scopeState[s] : s \in Scopes} \ {NoSession}
       IN  IF stored = {}
           THEN make_session(scope)
           ELSE /\ UNCHANGED <<nSessions, owner>>
                /\ \E session \in stored :
                      /\ scopeState' = [scopeState EXCEPT ![scope] = session]
                      /\ ret' = session
    /\ UNCHANGED <<handlerCfg, makerError, calls, propagated, terminated, svc, app, rows>>

provide_session(scope) ==
    /\ handlerCfg # NoHandler
    /\ LET session == scopeState[scope]
       IN  IF session = NoSession
           THEN make_session(scope)
           ELSE /\ UNCHANGED <<nSessions, owner, scopeState>>
                /\ ret' = session
    /\ UNCHANGED <<handlerCfg, makerError, calls, propagated, terminated, svc, app, rows>>

(* ------------------------------ the handlers -------------------------- *)

Call(op, scope, ok) == [op |-> op, by |-> scope, ok |-> ok]

\* what one hook invocation does: `made` are the calls it makes on the
\* session it found, `removes` whether it deletes the scope's session key,
\* `error` the exception that leaves the hook, or "none"
hook_outcome(scope, message, session, made, removes, error) ==
    /\ propagated' = error
    /\ scopeState' = IF removes
                     THEN [scopeState EXCEPT ![scope] = NoSession]
                     ELSE scopeState
    /\ calls' = IF session # NoSession
                THEN [calls EXCEPT ![session] = @ \o made]
                ELSE calls
    /\ terminated' = [terminated EXCEPT ![scope] =
                         @ \/ message.type \in SESSION_TERMINUS_ASGI_EVENTS]
    /\ UNCHANGED <<handlerCfg, makerError, nSessions, owner, ret, svc, app, rows>>

\* a hook in which only the commit or rollback may raise
hook_effect(scope, message, session, made, removes, raises) ==
    hook_outcome(scope, message, session, made, removes,
                 IF raises THEN "error" ELSE "none")

\* mutant of default_before_send_handler: the session key is not deleted
default_before_send_handler_keeps_key(scope, message) ==
    /\ handlerCfg.kind = "default"
    /\ LET session == scopeState[scope]
           cleanup == session # NoSession
                      /\ message.type \in SESSION_TERMINUS_ASGI_EVENTS
       IN  hook_effect(scope, message, session,
                       IF cleanup THEN <<Call("close", scope, TRUE)>> ELSE <<>>,
                       FALSE, FALSE)

\* mutant of default_before_send_handler: the session is committed before
\* it is closed
default_before_send_handler_commits(scope, message) ==
    /\ handlerCfg.kind = "default"
    /\ LET session == scopeState[scope]
           cleanup == session # NoSession
                      /\ message.type \in SESSION_TERMINUS_ASGI_EVENTS
       IN  hook_effect(scope, message, session,
                       IF cleanup
                       THEN <<Call("commit", scope, TRUE), Call("close", scope, TRUE)>>
                       ELSE <<>>,
                       cleanup, FALSE)

default_before_send_handler(scope, message) ==
    /\ handlerCfg.kind = "default"
    /\ LET session == scopeState[scope]
           cleanup == session # NoSession
                      /\ message.type \in SESSION_TERMINUS_ASGI_EVENTS
       IN  hook_effect(scope, message, session,
                       IF cleanup THEN <<Call("close", scope, TRUE)>> ELSE <<>>,
                       cleanup, FALSE)

\* mutant of decision: a status in the success range commits without looking
\* at extra_rollback_statuses
decision_range_first(cfg, status) ==
    IF \/ status \in cfg.commit_range
       \/ (status \in cfg.extra_commit_statuses
           /\ status \notin cfg.extra_rollback_statuses)
    THEN "commit"
    ELSE "rollback"

\* the branch taken on a response-start message
decision(cfg, status) ==
    IF (status \in cfg.commit_range \/ status \in cfg.extra_commit_statuses)
       /\ status \notin cfg.extra_rollback_statuses
    THEN "commit"
    ELSE "rollback"

\* mutant of handler: the cleanup is not in a finally block, so it is skipped
\* when the commit or rollback raises
handler_without_finally(scope, message, fails) ==
    /\ handlerCfg.kind = "autocommit"
    /\ LET session == scopeState[scope]
           decides == session # NoSession /\ message.type = HTTP_RESPONSE_START
           cleanup == /\ session # NoSession
                      /\ message.type \in SESSION_TERMINUS_ASGI_EVENTS
                      /\ ~fails
           tried == IF decides
                    THEN <<Call(decision(handlerCfg, message.status), scope, ~fails)>>
                    ELSE <<>>
           finally == IF cleanup THEN <<Call("close", scope, TRUE)>> ELSE <<>>
       IN  /\ fails => decides
           /\ hook_effect(scope, message, session, tried \o finally, cleanup, fails)

\* mutant of handler: a commit that raises is followed by a rollback
handler_rollback_on_error(scope, message, fails) ==
    /\ handlerCfg.kind = "autocommit"
    /\ LET session == scopeState[scope]
           decides == session # NoSession /\ message.type = HTTP_RESPONSE_START
           cleanup == session # NoSession
                      /\ message.type \in SESSION_TERMINUS_ASGI_EVENTS
           op == decision(handlerCfg, message.status)
           tried == IF decides
                    THEN IF fails /\ op = "commit"
                         THEN <<Call(op, scope, FALSE), Call("rollback", scope, TRUE)>>
                         ELSE <<Call(op, scope, ~fails)>>
                    ELSE <<>>
           finally == IF cleanup THEN <<Call("close", scope, TRUE)>> ELSE <<>>
       IN  /\ fails => decides
           /\ hook_effect(scope, message, session, tried \o finally, cleanup, fails)

\* mutant of handler: the hook reads the session of whichever scope has one
handler_any_scope(scope, message, fails) ==
    /\ handlerCfg.kind = "autocommit"
    /\ \E from \in Scopes :
        LET session == scopeState[from]
            decides == session # NoSession /\ message.type = HTTP_RESPONSE_START
            cleanup == session # NoSession
                       /\ message.type \in SESSION_TERMINUS_ASGI_EVENTS
            tried == IF decides
                     THEN <<Call(decision(handlerCfg, message.status), scope, ~fails)>>
                     ELSE <<>>
            finally == IF cleanup THEN <<Call("close", scope, TRUE)>> ELSE <<>>
        IN  /\ fails => decides
            /\ hook_effect(from, message, session, tried \o finally, cleanup, fails)

\* calls on one session up to which a session.close() may still raise
MaxCalls == 2

\* the closure's body. fails: the awaited session.commit() or
\* session.rollback() raises; close_fails: the awaited session.close() of the
\* finally block raises, which skips delete_litestar_scope_state and replaces
\* the exception in flight
handler_awaits(scope, message, fails, close_fails) ==
    /\ handlerCfg.kind = "autocommit"
    /\ LET session == scopeState[scope]
           decides == session # NoSession /\ message.type = HTTP_RESPONSE_START
           cleanup == session # NoSession
                      /\ message.type \in SESSION_TERMINUS_ASGI_EVENTS
           tried == IF decides
                    THEN <<Call(decision(handlerCfg, message.status), scope, ~fails)>>
                    ELSE <<>>
           finally == IF cleanup
                      THEN <<Call("close", scope, ~close_fails)>>
                      ELSE <<>>
       IN  /\ fails => decides
           /\ close_fails => cleanup /\ Len(calls[session]) + Len(tried) < MaxCalls
           /\ hook_outcome(scope, message, session, tried \o finally,
                           cleanup /\ ~close_fails,
                           IF close_fails THEN "close_error"
                           ELSE IF fails THEN "error" ELSE "none")

\* the handler when session.close() returns normally
handler(scope, message, fails) ==
    /\ handler_awaits(scope, message, fails, FALSE)

(* ------------------------------ application state -------------------- *)

\* engine handles the configuration can hand out
MaxEngines == 2
Engines == 1..MaxEngines

\* update_app_state and on_shutdown calls made on one application
MaxAppCalls == 5

\* no value under an application state key
NoEngine == 0

\* self.get_engine(): an engine handle, a new one or one handed out before
get_engine == Engines

\* self.create_session_maker(): bound to the engine get_engine() returns
create_session_maker == get_engine

\* the dict of create_app_state_items, for the engine and the bind obtained
create_app_state_items(engine, bind) ==
    [db_engine |-> engine, session_maker_class |-> bind]

\* app.state.update(self.create_app_state_items())
update_app_state(engine, bind) ==
    /\ app.ncalls < MaxAppCalls
    /\ app' = [app EXCEPT
                 !.state = create_app_state_items(engine, bind),
                 !.registrations[engine] = @ + 1,
                 !.error = "none",
                 !.ncalls = @ + 1]
    /\ UNCHANGED <<handlerCfg, makerError, scopeState, nSessions, owner, calls,
                   ret, propagated, terminated, svc, rows>>

\* mutant of on_shutdown: the engine is read from the state, not popped
on_shutdown_keeps_key ==
    /\ app.ncalls < MaxAppCalls
    /\ LET engine == app.state.db_engine
       IN  IF engine = NoEngine
           THEN app' = [app EXCEPT !.error = "KeyError", !.ncalls = @ + 1]
           ELSE app' = [app EXCEPT
                          !.disposals[engine] = @ + 1,
                          !.shutdowns = @ + 1,
                          !.error = "none",
                          !.ncalls = @ + 1]
    /\ UNCHANGED <<handlerCfg, makerError, scopeState, nSessions, owner, calls,
                   ret, propagated, terminated, svc, rows>>

\* engine = app.state.pop(self.engine_app_state_key); await engine.dispose()
on_shutdown ==
    /\ app.ncalls < MaxAppCalls
    /\ LET engine == app.state.db_engine
       IN  IF engine = NoEngine
           THEN app' = [app EXCEPT !.error = "KeyError", !.ncalls = @ + 1]
           ELSE app' = [app EXCEPT
                          !.state.db_engine = NoEngine,
                          !.disposals[engine] = @ + 1,
                          !.shutdowns = @ + 1,
                          !.error = "none",
                          !.ncalls = @ + 1]
    /\ UNCHANGED <<handlerCfg, makerError, scopeState, nSessions, owner, calls,
                   ret, propagated, terminated, svc, rows>>

(* ------------------------------ service.update ------------------------ *)

\* identifiers an entity may carry
IdValues == {1, 2}
\* values of the entity's other attribute, val
ValValues == {7, 8}

\* the attributes of the model type and the values each may hold
Attributes == {"id", "val"}
AttributeValues(k) == IF k = "id" THEN Optional(IdValues) ELSE Optional(ValValues)

\* entities of the service's model type: id is None until assigned
Models == [id : Optional(IdValues), val : Optional(ValValues)]

\* dict input: any subset of the attributes, as keyword arguments
Dicts ==
    UNION {{d \in [keys -> Optional(IdValues \cup ValValues)] :
               \A k \in keys : d[k] \in AttributeValues(k)} :
           keys \in SUBSET Attributes}

\* input of a service write: a dict, or an instance of the model type
ServiceInputs ==
    {[isdict |-> TRUE, value |-> d] : d \in Dicts}
    \cup {[isdict |-> FALSE, value |-> m] : m \in Models}

\* model_from_dict(model=self.repository.model_type, **data)
model_from_dict(data) ==
    [k \in Attributes |-> IF k \in DOMAIN data THEN data[k] ELSE None]

\* mutant of to_model: an entity built from a mapping gets its identifier
\* only
to_model_identifier_only(data) ==
    IF data.isdict
    THEN [model_from_dict(data.value) EXCEPT !.val = None]
    ELSE data.value

to_model(data) ==
    IF data.isdict THEN model_from_dict(data.value) ELSE data.value

\* self.repository.get_id_attribute_value(item=data, id_attribute=None)
get_id_attribute_value(item) == item.id

\* self.repository.set_id_attribute_value(item_id=item_id, item=data)
set_id_attribute_value(item_id, item) == [item EXCEPT !.id = item_id]

\* mutant of to_dict: every attribute of the model type is expanded, the
\* unset ones as None
to_dict_all_columns(model) ==
    [k \in Attributes |-> model[k]]

\* validated_model.to_dict(): the attributes the entity has a value for
to_dict(model) ==
    [k \in {a \in Attributes : model[a] # None} |-> model[k]]

(* ------------------------------ repository ---------------------------- *)

\* what a repository operation leaves: the table, the exception it raised
\* or "none", the entities it returned, get_or_upsert's created flag
Outcome(table, error, value, created) ==
    [rows |-> table, error |-> error, value |-> value, created |-> created]

Failed(table, error) == Outcome(table, error, <<>>, FALSE)

\* the rows of the table with the given identifier
RowsWith(table, id) == {r \in table : r.id = id}

\* identifiers the store can still assign
FreeIds(table) == {i \in IdValues : RowsWith(table, Some(i)) = {}}

\* repository.add: insert; the store assigns the identifier of an entity
\* that has none ("StoreFull": the bounded store has no identifier left)
repository_add(table, entity) ==
    IF entity.id = None
    THEN IF FreeIds(table) = {}
         THEN Failed(table, "StoreFull")
         ELSE LET id == CHOOSE i \in FreeIds(table) :
                           \A j \in FreeIds(table) : i <= j
                  row == [entity EXCEPT !.id = Some(id)]
              IN  Outcome(table \cup {row}, "none", <<row>>, FALSE)
    ELSE IF RowsWith(table, entity.id) # {}
         THEN Failed(table, "IntegrityError")
         ELSE Outcome(table \cup {entity}, "none", <<entity>>, FALSE)

\* repository.update: the attributes the entity has a value for are written
\* to the row with the entity's identifier
repository_update(table, entity) ==
    IF RowsWith(table, entity.id) = {}
    THEN Failed(table, "NotFoundError")
    ELSE LET old == CHOOSE r \in RowsWith(table, entity.id) : TRUE
             row == [k \in Attributes |->
                        IF entity[k] # None THEN entity[k] ELSE old[k]]
         IN  Outcome((table \ {old}) \cup {row}, "none", <<row>>, FALSE)

\* repository.upsert: insert or update, by whether a row with the entity's
\* identifier exists
repository_upsert(table, entity) ==
    IF entity.id # None /\ RowsWith(table, entity.id) # {}
    THEN repository_update(table, entity)
    ELSE repository_add(table, entity)

repository_one(op, table, entity) ==
    CASE op = "add" -> repository_add(table, entity)
      [] op = "update" -> repository_update(table, entity)
      [] op = "upsert" -> repository_upsert(table, entity)

RECURSIVE repository_each(_, _, _)
\* the operation applied to the entities in order, up to the first failure
repository_each(op, table, entities) ==
    IF entities = <<>>
    THEN Outcome(table, "none", <<>>, FALSE)
    ELSE LET first == repository_one(op, table, Head(entities))
         IN  IF first.error # "none"
             THEN first
             ELSE LET rest == repository_each(op, first.rows, Tail(entities))
                  IN  IF rest.error # "none"
                      THEN rest
                      ELSE Outcome(rest.rows, "none",
                                   first.value \o rest.value, FALSE)

\* a bulk operation: all entities are written, or none
repository_many(op, table, entities) ==
    LET out == repository_each(op, table, entities)
    IN  IF out.error # "none" THEN Failed(table, out.error) ELSE out

repository_add_many(table, entities) == repository_many("add", table, entities)

repository_update_many(table, entities) == repository_many("update", table, entities)

repository_upsert_many(table, entities) == repository_many("upsert", table, entities)

\* the fields repository.get_or_upsert looks a row up by: match_fields, or
\* all the given fields when match_fields is None or empty
lookup_fields(match_fields, kwargs) ==
    IF match_fields = None \/ match_fields = Some({})
    THEN DOMAIN kwargs
    ELSE match_fields[1] \cap DOMAIN kwargs

\* repository.get_or_upsert(match_fields, upsert, **kwargs)
repository_get_or_upsert(table, match_fields, upsert, kwargs) ==
    LET fields == lookup_fields(match_fields, kwargs)
        matches == {r \in table : \A k \in fields : r[k] = kwargs[k]}
    IN  IF matches = {}
        THEN LET added == repository_add(table, model_from_dict(kwargs))
             IN  [added EXCEPT !.created = (added.error = "none")]
        ELSE IF Cardinality(matches) > 1
        THEN Failed(table, "MultipleResultsFound")
        ELSE LET existing == CHOOSE r \in matches : TRUE
                 row == [k \in Attributes |->
                            IF k \in DOMAIN kwargs THEN kwargs[k] ELSE existing[k]]
             IN  IF ~upsert \/ row = existing
                 THEN Outcome(table, "none", <<existing>>, FALSE)
                 ELSE IF row.id # existing.id /\ RowsWith(table, row.id) # {}
                 THEN Failed(table, "IntegrityError")
                 ELSE Outcome((table \ {existing}) \cup {row}, "none",
                              <<row>>, FALSE)

(* ------------------------------ service ------------------------------- *)

\* what the caller of a service method gets back from the repository
Returned(out) ==
    [error |-> out.error, value |-> out.value, created |-> out.created]

\* a service call: `error` is the exception the service itself raised,
\* `repository` the repository calls it issued, `out` what they left
service_effect(op, args, error, repository, out) ==
    /\ out.error # "StoreFull"
    /\ svc' = [op |-> op, args |-> args, error |-> error,
               repository |-> repository, result |-> Returned(out)]
    /\ rows' = out.rows
    /\ UNCHANGED <<handlerCfg, makerError, scopeState, nSessions, owner, calls,
                   ret, propagated, terminated, app>>

\* no repository call has been made
Untouched == Outcome(rows, "none", <<>>, FALSE)

create(data) ==
    /\ LET model == to_model(data)
       IN  service_effect("create", [data |-> data], "none",
                          <<[op |-> "add", data |-> model]>>,
                          repository_add(rows, model))

\* to_model applied to each datum of a list
to_models(data) == [i \in 1..Len(data) |-> to_model(data[i])]

create_many(data) ==
    /\ LET models == to_models(data)
       IN  service_effect("create_many", [data |-> data], "none",
                          <<[op |-> "add_many", data |-> models]>>,
                          repository_add_many(rows, models))

\* mutant of update: the identifier is not checked before the repository
\* is called
update_unchecked(data, item_id) ==
    /\ LET model == to_model(data)
           args == [data |-> data, item_id |-> item_id]
           entity == IF item_id # None
                     THEN set_id_attribute_value(item_id, model)
                     ELSE model
       IN  service_effect("update", args, "none",
                          <<[op |-> "update", data |-> entity]>>,
                          repository_update(rows, entity))

\* mutant of update: item_id is used only when the entity has no identifier
update_keeps_id(data, item_id) ==
    /\ LET model == to_model(data)
           args == [data |-> data, item_id |-> item_id]
       IN  IF item_id = None /\ get_id_attribute_value(model) = None
           THEN service_effect("update", args, "RepositoryError", <<>>, Untouched)
           ELSE LET entity == IF get_id_attribute_value(model) = None
                              THEN set_id_attribute_value(item_id, model)
                              ELSE model
                IN  service_effect("update", args, "none",
                                   <<[op |-> "update", data |-> entity]>>,
                                   repository_update(rows, entity))

\* the service's update: item_id is None or Some(identifier)
update(data, item_id) ==
    /\ LET model == to_model(data)
           args == [data |-> data, item_id |-> item_id]
       IN  IF item_id = None /\ get_id_attribute_value(model) = None
           THEN service_effect("update", args, "RepositoryError", <<>>, Untouched)
           ELSE LET entity == IF item_id # None
                              THEN set_id_attribute_value(item_id, model)
                              ELSE model
                IN  service_effect("update", args, "none",
                                   <<[op |-> "update", data |-> entity]>>,
                                   repository_update(rows, entity))

update_many(data) ==
    /\ LET models == to_models(data)
       IN  service_effect("update_many", [data |-> data], "none",
                          <<[op |-> "update_many", data |-> models]>>,
                          repository_update_many(rows, models))

\* the service's upsert: item_id is None or Some(identifier)
upsert(data, item_id) ==
    /\ LET model == to_model(data)
           entity == set_id_attribute_value(item_id, model)
       IN  service_effect("upsert", [data |-> data, item_id |-> item_id], "none",
                          <<[op |-> "upsert", data |-> entity]>>,
                          repository_upsert(rows, entity))

upsert_many(data) ==
    /\ LET models == to_models(data)
       IN  service_effect("upsert_many", [data |-> data], "none",
                          <<[op |-> "upsert_many", data |-> models]>>,
                          repository_upsert_many(rows, models))

\* mutant of get_or_upsert: the match_fields of the call are passed on as
\* they are, the class attribute is not consulted
get_or_upsert_call_fields_only(self_match_fields, match_fields, upsert_flag, kwargs) ==
    /\ LET validated_model == to_model([isdict |-> TRUE, value |-> kwargs])
           expanded == to_dict(validated_model)
       IN  service_effect("get_or_upsert",
                          [self_match_fields |-> self_match_fields,
                           match_fields |-> match_fields,
                           upsert |-> upsert_flag, kwargs |-> kwargs],
                          "none",
                          <<[op |-> "get_or_upsert", match_fields |-> match_fields,
                             upsert |-> upsert_flag, kwargs |-> expanded]>>,
                          repository_get_or_upsert(rows, match_fields,
                                                   upsert_flag, expanded))

\* the service's get_or_upsert; self_match_fields is the match_fields
\* attribute of the service class the call is made on
get_or_upsert(self_match_fields, match_fields, upsert_flag, kwargs) ==
    /\ LET fields == IF match_fields = None \/ match_fields = Some({})
                     THEN self_match_fields
                     ELSE match_fields
           validated_model == to_model([isdict |-> TRUE, value |-> kwargs])
           expanded == to_dict(validated_model)
       IN  service_effect("get_or_upsert",
                          [self_match_fields |-> self_match_fields,
                           match_fields |-> match_fields,
                           upsert |-> upsert_flag, kwargs |-> kwargs],
                          "none",
                          <<[op |-> "get_or_upsert", match_fields |-> fields,
                             upsert |-> upsert_flag, kwargs |-> expanded]>>,
                          repository_get_or_upsert(rows, fields, upsert_flag, expanded))

(* ------------------------------ find_filter --------------------------- *)

\* filter classes; NotInSearchFilter is a subclass of SearchFilter
FilterClasses == {"LimitOffset", "SearchFilter", "NotInSearchFilter"}

\* the classes an instance of cls is an instance of
Bases(cls) ==
    IF cls = "NotInSearchFilter" THEN {"NotInSearchFilter", "SearchFilter"} ELSE {cls}

\* filter instances: one of every class, and a second SearchFilter
Filters ==
    {f \in [cls : FilterClasses, tag : {"a", "b"}] :
        f.tag = "b" => f.cls = "SearchFilter"}

\* the *filters of a call
MaxFilters == 3
FilterArgs == UNION {[1..n -> Filters] : n \in 0..MaxFilters}

isinstance(filter_, filter_type) == filter_type \in Bases(filter_.cls)

RECURSIVE last_instance(_, _)
\* mutant of next_instance: the last instance in argument order is returned
last_instance(filter_type, filters) ==
    IF filters = <<>>
    THEN None
    ELSE LET later == last_instance(filter_type, Tail(filters))
         IN  IF later # None THEN later
             ELSE IF isinstance(Head(filters), filter_type)
             THEN Some(Head(filters))
             ELSE None

RECURSIVE next_instance(_, _)
\* next((filter_ for filter_ in filters if isinstance(filter_, filter_type)), None)
next_instance(filter_type, filters) ==
    IF filters = <<>>
    THEN None
    ELSE IF isinstance(Head(filters), filter_type)
    THEN Some(Head(filters))
    ELSE next_instance(filter_type, Tail(filters))

find_filter(filter_type, filters) ==
    /\ service_effect("find_filter",
                      [filter_type |-> filter_type, filters |-> filters],
                      "none", <<>>,
                      Outcome(rows, "none", next_instance(filter_type, filters), FALSE))

(* ------------------------------ specification ------------------------- *)

Init ==
    /\ handlerCfg = NoHandler
    /\ makerError = "none"
    /\ scopeState = [s \in Scopes |-> NoSession]
    /\ nSessions = 0
    /\ owner = [x \in SessionIds |-> NoScope]
    /\ calls = [x \in SessionIds |-> <<>>]
    /\ ret = NoSession
    /\ propagated = "none"
    /\ terminated = [s \in Scopes |-> FALSE]
    /\ svc = [op |-> "none", args |-> [data |-> None], error |-> "none",
              repository |-> <<>>, result |-> Returned(Failed({}, "none"))]
    /\ app = [state |-> create_app_state_items(NoEngine, NoEngine),
              registrations |-> [e \in Engines |-> 0],
              disposals |-> [e \in Engines |-> 0],
              shutdowns |-> 0,
              error |-> "none",
              ncalls |-> 0]
    /\ rows = {}

Configure ==
    \/ \E cor \in BOOLEAN, ec \in Optional(SUBSET ExtraCodes),
          er \in Optional(SUBSET ExtraCodes) :
          autocommit_handler_maker(cor, ec, er)
    \/ use_default_handler

\* the request pipeline: the host may send any message to any scope at any time
Next ==
    \/ Configure
    \/ \E scope \in Scopes : provide_session(scope)
    \/ \E scope \in Scopes, message \in Messages :
          default_before_send_handler(scope, message)
    \/ \E scope \in Scopes, message \in Messages, fails \in BOOLEAN :
          handler(scope, message, fails)

Spec == Init /\ [][Next]_vars

\* construction of the handler and calls of the service, no request in flight
NextErrors ==
    \/ Configure
    \/ \E data \in ServiceInputs, item_id \in Optional(IdValues) :
          update(data, item_id)

SpecErrors == Init /\ [][NextErrors]_vars

\* the request pipeline when session.close() may raise as well
NextFaults ==
    \/ \E commit_on_redirect \in BOOLEAN :
          autocommit_handler_maker(commit_on_redirect, None, None)
    \/ \E scope \in Scopes : provide_session(scope)
    \/ \E scope \in Scopes, message \in Messages, fails \in BOOLEAN,
          close_fails \in BOOLEAN :
          handler_awaits(scope, message, fails, close_fails)

SpecFaults == Init /\ [][NextFaults]_vars

\* the lists given to the bulk operations
MaxMany == 2
ManyElements ==
    {x \in ServiceInputs :
        /\ x.isdict => DOMAIN x.value = Attributes
        /\ x.value.id # Some(2)
        /\ x.value.val = Some(7)}
ManyInputs ==
    UNION {[1..n -> ManyElements] : n \in 0..MaxMany}

\* match_fields of a call, and of the service class
MatchFields == {None, Some({}), Some({"id"}), Some({"val"})}
SelfMatchFields == {None, Some({"val"})}

\* the write operations of a service over one table
NextService ==
    \/ \E data \in ServiceInputs : create(data)
    \/ \E data \in ManyInputs : create_many(data)
    \/ \E data \in ServiceInputs, item_id \in Optional(IdValues) :
          update(data, item_id)
    \/ \E data \in ManyInputs : update_many(data)
    \/ \E data \in ServiceInputs, item_id \in Optional(IdValues) :
          upsert(data, item_id)
    \/ \E data \in ManyInputs : upsert_many(data)
    \/ \E self_match_fields \in SelfMatchFields, match_fields \in MatchFields,
          upsert_flag \in BOOLEAN, kwargs \in Dicts :
          get_or_upsert(self_match_fields, match_fields, upsert_flag, kwargs)

SpecService == Init /\ [][NextService]_vars

\* calls of the static helper find_filter
NextFilters ==
    \E filter_type \in FilterClasses, filters \in FilterArgs :
        find_filter(filter_type, filters)

SpecFilters == Init /\ [][NextFilters]_vars

\* the application's lifecycle hooks, called in any order
NextApp ==
    \/ \E engine \in get_engine, bind \in create_session_maker :
          update_app_state(engine, bind)
    \/ on_shutdown

SpecApp == Init /\ [][NextApp]_vars

\* the installed before_send_handler, as the host invokes it
before_send(scope, message, fails) ==
    \/ ~fails /\ default_before_send_handler(scope, message)
    \/ handler(scope, message, fails)

\* a message that ends no request
host_sends(scope, message, fails) ==
    /\ message.type \notin SESSION_TERMINUS_ASGI_EVENTS
    /\ before_send(scope, message, fails)

\* the terminus message of the request, which the host delivers once
host_terminates(scope, message, fails) ==
    /\ message.type \in SESSION_TERMINUS_ASGI_EVENTS
    /\ ~terminated[scope]
    /\ before_send(scope, message, fails)

Terminate(scope) ==
    \E message \in Messages, fails \in BOOLEAN : host_terminates(scope, message, fails)

\* a host that delivers exactly one terminus message to every request
NextLive ==
    \/ Configure
    \/ \E scope \in Scopes : provide_session(scope)
    \/ \E scope \in Scopes, message \in Messages, fails \in BOOLEAN :
          host_sends(scope, message, fails)
    \/ \E scope \in Scopes : Terminate(scope)

SpecLive ==
    /\ Init
    /\ [][NextLive]_vars
    /\ \A scope \in Scopes : WF_vars(Terminate(scope))

(* ------------------------------ vocabulary ---------------------------- *)

\* the sessions session_maker() has produced so far
Created == 1..nSessions

\* the names of the calls made on session x, in order
Ops(x) == [i \in 1..Len(calls[x]) |-> calls[x][i].op]

Closed(x) == \E i \in 1..Len(calls[x]) : calls[x][i].op = "close"

\* positions of the commit and rollback calls made on session x
Decisions(x) == {i \in 1..Len(calls[x]) : calls[x][i].op \in {"commit", "rollback"}}

StartMessage(status) == [type |-> HTTP_RESPONSE_START, status |-> status]

(* ------------------------------ C1 ------------------------------------ *)

\* C1: with extra_rollback_statuses empty, a response-start message that finds
\* a session stored in the scope issues exactly one decision on it: commit if
\* the status is in 200..299 (200..399 with commit_on_redirect) or in
\* extra_commit_statuses, rollback otherwise.
C1_CommitOrRollbackByStatus ==
    [][\A scope \in Scopes :
          ( /\ handlerCfg.kind = "autocommit"
            /\ handlerCfg.extra_rollback_statuses = {}
            /\ scopeState[scope] # NoSession )
          => \A status \in StatusCodes, fails \in BOOLEAN :
                handler(scope, StartMessage(status), fails)
                => \A cor \in BOOLEAN, ec \in SUBSET ExtraCodes :
                      handlerCfg = maker_handler(cor, Some(ec), None)
                      => LET x == scopeState[scope]
                             n == Len(calls[x])
                         IN  /\ Len(calls'[x]) > n
                             /\ calls'[x][n + 1].op =
                                  IF \/ status \in 200..299
                                     \/ (cor /\ status \in 200..399)
                                     \/ status \in ec
                                  THEN "commit"
                                  ELSE "rollback"
                             /\ \A i \in (n + 2)..Len(calls'[x]) :
                                   calls'[x][i].op \notin {"commit", "rollback"}
      ]_vars

\* both decisions have been taken under a configuration whose extra commit
\* set holds a status outside the success range
C1_Witness ==
    /\ handlerCfg = maker_handler(FALSE, Some({404}), None)
    /\ \E x \in Created : Ops(x) = <<"commit", "close">>
    /\ \E x \in Created : Ops(x) = <<"rollback", "close">>

(* ------------------------------ C2 ------------------------------------ *)

C3_ExactlyOneDecisionPerRequest ==
    \A x \in Created :
        (handlerCfg.kind = "autocommit" /\ Closed(x))
        => Cardinality(Decisions(x)) = 1

\* C3: a session receives at most one commit or rollback (never both, never
\* twice), every such call comes before the session's close, and none is made
\* on a session that has been closed.
C3_AtMostOneDecisionBeforeClose ==
    \A x \in Created :
        /\ Cardinality(Decisions(x)) <= 1
        /\ \A i \in Decisions(x), j \in 1..Len(calls[x]) :
              calls[x][j].op = "close" => i < j

\* under the autocommit handler one session was decided and then closed,
\* another was closed by a terminus message that is no response start
C3_Witness ==
    /\ handlerCfg.kind = "autocommit"
    /\ \E x \in Created : Ops(x) \in {<<"commit", "close">>, <<"rollback", "close">>}
    /\ \E x \in Created : Ops(x) = <<"close">>

(* ------------------------------ C4 ------------------------------------ *)

\* the sessions of a scope that are not closed
OpenOf(scope) == {x \in Created : owner[x] = scope /\ ~Closed(x)}

\* C4: provide_session calls the session factory exactly when the scope holds
\* no session, and stores and returns the new session; otherwise it returns
\* the stored session and creates nothing. A scope never has more than one
\* open session, and its open session is the one stored in it.
C4_OneSessionPerScope ==
    /\ [](\A scope \in Scopes :
             /\ Cardinality(OpenOf(scope)) <= 1
             /\ \A x \in OpenOf(scope) : scopeState[scope] = x)
    /\ [](nSessions = 0 => ret = NoSession)
    /\ [][\A scope \in Scopes :
             provide_session(scope)
             => IF scopeState[scope] = NoSession
                THEN /\ nSessions' = nSessions + 1
                     /\ ret' = nSessions'
                     /\ scopeState'[scope] = ret'
                ELSE /\ nSessions' = nSessions
                     /\ ret' = scopeState[scope]
                     /\ scopeState'[scope] = scopeState[scope]
         ]_vars

\* a call returned the session stored in its scope although a newer session exists
C4_Witness ==
    /\ ret # NoSession
    /\ ret < nSessions
    /\ scopeState[owner[ret]] = ret
    /\ ~Closed(ret)

(* ------------------------------ C5 ------------------------------------ *)

\* C5 as stated: over its whole lifetime a request owns at most one session.
C5_OneSessionPerRequestLifetime ==
    \A scope \in Scopes : Cardinality({x \in Created : owner[x] = scope}) <= 1

Phase(x) ==
    IF x \notin Created THEN "NO_SESSION"
    ELSE IF Closed(x) THEN "CLOSED"
    ELSE "SESSION_OPEN"

\* C5: each session moves forward only, NO_SESSION -> SESSION_OPEN -> CLOSED,
\* and is stored in the scope of its request exactly while it is open.
C5_SessionMovesForward ==
    /\ [](\A x \in SessionIds, scope \in Scopes :
             scopeState[scope] = x <=> (Phase(x) = "SESSION_OPEN" /\ owner[x] = scope))
    /\ [][\A x \in SessionIds :
             <<Phase(x), Phase(x)'>> \in
                {<<"NO_SESSION", "NO_SESSION">>, <<"NO_SESSION", "SESSION_OPEN">>,
                 <<"SESSION_OPEN", "SESSION_OPEN">>, <<"SESSION_OPEN", "CLOSED">>,
                 <<"CLOSED", "CLOSED">>}
         ]_vars

\* a request whose first session is closed and removed holds a second one
C5_Witness ==
    \E x \in Created, y \in Created :
        /\ x < y
        /\ owner[x] = owner[y]
        /\ Phase(x) = "CLOSED"
        /\ Phase(y) = "SESSION_OPEN"
        /\ scopeState[owner[y]] = y

(* ------------------------------ C7 ------------------------------------ *)

\* C7: the default handler, on a terminus message that finds a session stored,
\* closes that session and removes it from the scope and does nothing else;
\* on any other message, or with no session stored, it changes neither the
\* scope state nor any session; it never issues a commit or a rollback.
C7_DefaultHandlerOnlyCloses ==
    /\ [](handlerCfg.kind = "default" => \A x \in Created : Decisions(x) = {})
    /\ [][\A scope \in Scopes, message \in Messages :
             default_before_send_handler(scope, message)
             => LET x == scopeState[scope]
                IN  /\ UNCHANGED <<nSessions, owner>>
                    /\ IF x # NoSession /\ message.type \in SESSION_TERMINUS_ASGI_EVENTS
                       THEN /\ calls' = [calls EXCEPT ![x] =
                                            Append(@, Call("close", scope, TRUE))]
                            /\ scopeState' = [scopeState EXCEPT ![scope] = NoSession]
                       ELSE UNCHANGED <<calls, scopeState>>
         ]_vars

\* the default handler closed and removed a session while another stays stored
C7_Witness ==
    /\ handlerCfg.kind = "default"
    /\ \E x \in Created : Ops(x) = <<"close">> /\ scopeState[owner[x]] = NoSession
    /\ \E x \in Created : Ops(x) = <<>> /\ scopeState[owner[x]] = x

(* ------------------------------ C8 ------------------------------------ *)

\* C8: a session is stored only in the scope of the request that created it,
\* no two scopes hold the same session, every call on a session is made by a
\* hook of its own request, and a hook or provide_session call of one request
\* leaves the stored session of every other request as it is.
C8_SessionsNotShared ==
    /\ [](\A scope \in Scopes :
             scopeState[scope] # NoSession => owner[scopeState[scope]] = scope)
    /\ [](\A scope \in Scopes, other \in Scopes :
             (scopeState[scope] # NoSession /\ scopeState[scope] = scopeState[other])
             => scope = other)
    /\ [](\A x \in Created : \A i \in 1..Len(calls[x]) : calls[x][i].by = owner[x])
    /\ [][\A scope \in Scopes : provide_session(scope) => owner'[ret'] = scope]_vars
    /\ [][\A scope \in Scopes :
             ( \/ provide_session(scope)
               \/ \E message \in Messages :
                    \/ default_before_send_handler(scope, message)
                    \/ \E fails \in BOOLEAN : handler(scope, message, fails) )
             => \A other \in Scopes \ {scope} :
                   /\ scopeState'[other] = scopeState[other]
                   /\ scopeState[other] # NoSession
                      => calls'[scopeState[other]] = calls[scopeState[other]]
         ]_vars

\* a hook of one request closed and removed that request's session while
\* the other request keeps its own session stored and untouched
C8_Witness ==
    \E x \in Created, y \in Created :
        /\ owner[x] # owner[y]
        /\ Closed(x)
        /\ scopeState[owner[x]] = NoSession
        /\ scopeState[owner[y]] = y
        /\ calls[y] = <<>>

(* ------------------------------ C6 ------------------------------------ *)

Shares(ec, er) == ec # None /\ er # None /\ \E c \in ExtraCodes : c \in ec[1] /\ c \in er[1]

\* C9: autocommit_handler_maker raises and yields no handler exactly when
\* the two sets share a status; after it raised there is no handler, so no
\* session is created and no message is handled.
C9_OverlapFailsAtConstruction ==
    /\ [](makerError # "none"
          => /\ handlerCfg = NoHandler
             /\ nSessions = 0
             /\ \A scope \in Scopes : scopeState[scope] = NoSession /\ ~terminated[scope])
    /\ [][\A cor \in BOOLEAN, ec \in Optional(SUBSET ExtraCodes),
             er \in Optional(SUBSET ExtraCodes) :
             autocommit_handler_maker(cor, ec, er)
             => IF Shares(ec, er)
                THEN makerError' # "none" /\ handlerCfg' = NoHandler
                ELSE makerError' = "none" /\ handlerCfg'.kind = "autocommit"
         ]_vars

\* construction was refused
C9_Witness ==
    /\ makerError # "none"
    /\ handlerCfg = NoHandler

(* ------------------------------ C10 ----------------------------------- *)

\* C10 as stated: the conflict of the two status sets is reported with the
\* error kind of update's unresolvable identifier.
C10_ConflictIsRepositoryError ==
    (makerError # "none" /\ svc.op = "update" /\ svc.error # "none")
    => makerError = svc.error

\* C10: the conflict of the two status sets is reported as a ValueError;
\* update reports an unresolvable identifier as a RepositoryError.
C10_ConflictIsValueError ==
    /\ makerError # "none" => makerError = "ValueError"
    /\ (svc.op = "update" /\ svc.error # "none") => svc.error = "RepositoryError"

\* both failures have been raised
C10_Witness ==
    /\ makerError # "none"
    /\ svc.op = "update"
    /\ svc.error # "none"

(* ------------------------------ C11 ----------------------------------- *)

\* C11: a response-start message whose status is in extra_rollback_statuses,
\* arriving while a session is stored in the scope, issues a rollback on that
\* session and no commit, also when the status lies in the commit range.
C11_ExtraRollbackWins ==
    [][\A scope \in Scopes :
          (handlerCfg.kind = "autocommit" /\ scopeState[scope] # NoSession)
          => \A status \in StatusCodes, fails \in BOOLEAN :
                ( /\ status \in handlerCfg.extra_rollback_statuses
                  /\ handler(scope, StartMessage(status), fails) )
                => LET x == scopeState[scope]
                       n == Len(calls[x])
                   IN  /\ Len(calls'[x]) > n
                       /\ calls'[x][n + 1].op = "rollback"
                       /\ \A i \in (n + 1)..Len(calls'[x]) :
                             calls'[x][i].op # "commit"
      ]_vars

\* status 200 is in the commit range and in extra_rollback_statuses, and a
\* session has been rolled back and closed under that configuration
C11_Witness ==
    /\ handlerCfg.kind = "autocommit"
    /\ 200 \in handlerCfg.commit_range
    /\ handlerCfg.extra_rollback_statuses = {200}
    /\ \E x \in Created : Ops(x) = <<"rollback", "close">>

(* ------------------------------ C12 ----------------------------------- *)

\* C12: when the commit or rollback of a handler invocation raises, the
\* exception that leaves the handler is that exception, whatever happens in
\* the close-and-clear step.
C12_OriginalExceptionReachesHost ==
    [][\A scope \in Scopes, message \in Messages, close_fails \in BOOLEAN :
          handler_awaits(scope, message, TRUE, close_fails)
          => propagated' = "error"
      ]_vars

\* a commit raised, the close of the same invocation raised too, and the
\* exception that left the handler is the one raised by the close
C12_Witness ==
    /\ propagated = "close_error"
    /\ \E x \in Created :
          /\ Len(calls[x]) = 2
          /\ calls[x][1] = Call("commit", owner[x], FALSE)
          /\ calls[x][2] = Call("close", owner[x], FALSE)
          /\ scopeState[owner[x]] = x

(* ------------------------------ C13 ----------------------------------- *)

RECURSIVE Sum(_, _)
\* the sum of f over the set S
Sum(f, S) ==
    IF S = {} THEN 0
    ELSE LET e == CHOOSE x \in S : TRUE IN f[e] + Sum(f, S \ {e})

\* C13 as stated: once the application has been shut down, dispose has been
\* invoked exactly once, and no engine has been disposed twice.
C13_DisposedExactlyOnce ==
    /\ app.shutdowns > 0 => Sum(app.disposals, Engines) = 1
    /\ \A e \in Engines : app.disposals[e] <= 1

\* C13, amended: an on_shutdown that finds an engine under the key removes it
\* and disposes it once; one that finds none raises KeyError and disposes
\* nothing. So there are as many dispose calls as completed shutdowns, and no
\* engine is disposed more often than update_app_state registered it.
C13_DisposedOncePerShutdown ==
    /\ [](/\ Sum(app.disposals, Engines) = app.shutdowns
          /\ \A e \in Engines :
                /\ app.disposals[e] <= app.registrations[e]
                /\ app.state.db_engine = e
                   => app.disposals[e] < app.registrations[e])
    /\ [][on_shutdown
          => LET engine == app.state.db_engine
             IN  /\ app'.state.db_engine = NoEngine
                 /\ \A e \in Engines :
                       app'.disposals[e] =
                         app.disposals[e] + (IF e = engine THEN 1 ELSE 0)
                 /\ app'.error = IF engine = NoEngine THEN "KeyError" ELSE "none"
        ]_vars

\* an engine registered again after its shutdown has been disposed by both
\* shutdowns, and a further on_shutdown found no engine
C13_Witness ==
    /\ app.shutdowns = 2
    /\ \E e \in Engines : app.disposals[e] = 2 /\ app.registrations[e] = 2
    /\ app.error = "KeyError"

(* ------------------------------ C14 ----------------------------------- *)

\* input that converts to an entity without identifier
NullId(data) == get_id_attribute_value(to_model(data)) = None

\* C14: an upsert of an entity whose identifier is null inserts one row; and
\* when the entity that upsert returned, with its assigned identifier and a
\* changed field, is upserted next without item_id, the number of rows stays
\* the same.
C14_UpsertRoundTrip ==
    [][/\ \A data \in ServiceInputs :
            (NullId(data) /\ upsert(data, None))
            => Cardinality(rows') = Cardinality(rows) + 1
       /\ ( /\ svc.op = "upsert"
            /\ svc.args.item_id = None
            /\ NullId(svc.args.data)
            /\ svc.result.error = "none" )
          => \A val \in Optional(ValValues) :
                LET stored == svc.result.value[1]
                    again == [isdict |-> FALSE,
                              value |-> [stored EXCEPT !.val = val]]
                IN  (val # stored.val /\ upsert(again, None))
                    => Cardinality(rows') = Cardinality(rows)
      ]_vars

\* the entity an upsert stored under identifier 1 has been upserted again with
\* another val and no item_id, and the table now has a second row
C14_Witness ==
    /\ svc.op = "upsert"
    /\ svc.args = [data |-> [isdict |-> FALSE,
                             value |-> [id |-> Some(1), val |-> Some(8)]],
                   item_id |-> None]
    /\ rows = {[id |-> Some(1), val |-> Some(7)], [id |-> Some(2), val |-> Some(8)]}

(* ------------------------------ C15 ----------------------------------- *)

Given(data, k) ==
    IF data.isdict
    THEN IF k \in DOMAIN data.value THEN data.value[k] ELSE None
    ELSE data.value[k]

\* C16: update raises RepositoryError, with no repository call issued and the
\* table untouched, exactly when item_id is None and the input, mapping or
\* entity, gives no identifier; otherwise the service raises nothing and the
\* repository is called.
C16_UpdateNeedsIdentifier ==
    [][svc'.op = "update"
       => LET a == svc'.args
          IN  update(a.data, a.item_id)
              => IF a.item_id = None /\ Given(a.data, "id") = None
                 THEN /\ svc'.error = "RepositoryError"
                      /\ svc'.repository = <<>>
                      /\ rows' = rows
                 ELSE /\ svc'.error = "none"
                      /\ Len(svc'.repository) = 1
      ]_vars

\* on a table with rows, an update with a mapping that gives no identifier
\* and without item_id has been refused
C16_Witness ==
    /\ svc.op = "update"
    /\ svc.args = [data |-> [isdict |-> TRUE, value |-> [val |-> Some(8)]],
                   item_id |-> None]
    /\ svc.error = "RepositoryError"
    /\ rows # {}

(* ------------------------------ C17 ----------------------------------- *)

\* C17: the one repository call of an update that the service lets through
\* is repository.update, with an entity whose identifier is item_id when
\* item_id is given and the input's own identifier when it is not, and whose
\* other attribute is the input's.
C17_ItemIdOverwritesIdentifier ==
    [][svc'.op = "update"
       => LET a == svc'.args
          IN  (update(a.data, a.item_id) /\ svc'.error = "none")
              => LET call == svc'.repository[1]
                 IN  /\ call.op = "update"
                     /\ call.data.id = IF a.item_id # None
                                       THEN a.item_id
                                       ELSE Given(a.data, "id")
                     /\ call.data.val = Given(a.data, "val")
      ]_vars

\* an entity carrying identifier 1 has been updated with item_id 2: the
\* repository got it with identifier 2 and wrote row 2
C17_Witness ==
    /\ svc.op = "update"
    /\ svc.args = [data |-> [isdict |-> FALSE,
                             value |-> [id |-> Some(1), val |-> Some(8)]],
                   item_id |-> Some(2)]
    /\ svc.repository = <<[op |-> "update",
                           data |-> [id |-> Some(2), val |-> Some(8)]]>>
    /\ svc.result.error = "none"
    /\ [id |-> Some(2), val |-> Some(8)] \in rows

(* ------------------------------ C18 ----------------------------------- *)

\* the entity the input stands for: built from a mapping's keys and values,
\* or the entity given
Entity(data) == [k \in Attributes |-> Given(data, k)]

Entities(data) == [i \in 1..Len(data) |-> Entity(data[i])]

\* the same entity but for its identifier
SameButId(x, y) == [x EXCEPT !.id = None] = [y EXCEPT !.id = None]

\* C18: to_model gives the entity built from a mapping's keys and values and
\* gives an entity back as it is; a write operation that the service lets
\* through issues exactly one repository call, the operation matching it, on
\* the converted input (update and upsert having set its identifier), and one
\* that it refuses issues none.
C18_WritesConvertThenDelegate ==
    [][LET a == svc'.args
           op == svc'.op
           call == svc'.repository[1]
       IN  /\ Len(svc'.repository) = IF svc'.error = "none" THEN 1 ELSE 0
           /\ svc'.error # "none" => op = "update"
           /\ svc'.error = "none" =>
                CASE op = "create" ->
                       /\ create(a.data)
                       /\ to_model(a.data) = Entity(a.data)
                       /\ call = [op |-> "add", data |-> Entity(a.data)]
                  [] op = "create_many" ->
                       /\ create_many(a.data)
                       /\ call = [op |-> "add_many", data |-> Entities(a.data)]
                  [] op = "update" ->
                       /\ update(a.data, a.item_id)
                       /\ call.op = "update"
                       /\ SameButId(call.data, Entity(a.data))
                  [] op = "update_many" ->
                       /\ update_many(a.data)
                       /\ call = [op |-> "update_many", data |-> Entities(a.data)]
                  [] op = "upsert" ->
                       /\ upsert(a.data, a.item_id)
                       /\ call.op = "upsert"
                       /\ SameButId(call.data, Entity(a.data))
                  [] op = "upsert_many" ->
                       /\ upsert_many(a.data)
                       /\ call = [op |-> "upsert_many", data |-> Entities(a.data)]
                  [] op = "get_or_upsert" ->
                       /\ get_or_upsert(a.self_match_fields, a.match_fields,
                                        a.upsert, a.kwargs)
                       /\ call.op = "get_or_upsert"
                       /\ model_from_dict(call.kwargs)
                            = Entity([isdict |-> TRUE, value |-> a.kwargs])
                  [] OTHER -> TRUE
      ]_vars

\* create_many has been given an entity and a mapping, and add_many got the
\* entity as it was and the entity built from the mapping
C18_Witness ==
    /\ svc.op = "create_many"
    /\ svc.args.data = <<[isdict |-> FALSE,
                          value |-> [id |-> Some(1), val |-> Some(7)]],
                         [isdict |-> TRUE,
                          value |-> [id |-> None, val |-> Some(7)]]>>
    /\ svc.repository = <<[op |-> "add_many",
                           data |-> <<[id |-> Some(1), val |-> Some(7)],
                                      [id |-> None, val |-> Some(7)]>>]>>
    /\ svc.result.error = "none"
    /\ Cardinality(rows) = 2

(* ------------------------------ C19 ----------------------------------- *)

\* match_fields is None or the empty list
Empty(match_fields) == match_fields = None \/ match_fields = Some({})

\* the fields the call gives a value for
GivenFields(kwargs) == {k \in DOMAIN kwargs : kwargs[k] # None}

\* some row of the table agrees with kwargs on all of the fields
Found(table, fields, kwargs) ==
    \E r \in table : \A k \in fields : r[k] = kwargs[k]

Instances(filter_type, filters) ==
    {i \in 1..Len(filters) : filter_type \in Bases(filters[i].cls)}

\* C20: find_filter returns the argument at the least position that holds an
\* instance of filter_type, and None when no position does.
C20_FirstInstanceOrNone ==
    svc.op = "find_filter"
    => LET a == svc.args
           at == Instances(a.filter_type, a.filters)
           found == svc.result.value
       IN  IF at = {}
           THEN found = None
           ELSE /\ found # None
                /\ \E i \in at :
                      /\ \A j \in at : i <= j
                      /\ found = Some(a.filters[i])

\* asked for a SearchFilter among a LimitOffset, a NotInSearchFilter and a
\* SearchFilter, find_filter has returned the NotInSearchFilter
C20_Witness ==
    /\ svc.op = "find_filter"
    /\ svc.args.filter_type = "SearchFilter"
    /\ svc.args.filters = <<[cls |-> "LimitOffset", tag |-> "a"],
                            [cls |-> "NotInSearchFilter", tag |-> "a"],
                            [cls |-> "SearchFilter", tag |-> "b"]>>
    /\ svc.result.value = Some([cls |-> "NotInSearchFilter", tag |-> "a"])

(* ------------------------------ C21 ----------------------------------- *)

\* C21: a terminus message other than the response start that finds a session
\* stored in the scope makes the handler close that session, and nothing
\* else, and remove it from the scope; a message of any type that finds no
\* session makes the handler call nothing on any session and leaves every
\* scope's state as it is.
C21_TerminusClosesOnlyNoSessionNothing ==
    [][\A scope \in Scopes :
          handlerCfg.kind = "autocommit"
          => LET x == scopeState[scope]
             IN  IF x = NoSession
                 THEN \/ /\ calls' = calls
                         /\ scopeState' = scopeState
                         /\ propagated' = "none"
                      \/ \A message \in Messages, fails \in BOOLEAN :
                            ~handler(scope, message, fails)
                 ELSE \/ /\ calls' = [calls EXCEPT
                                        ![x] = @ \o <<Call("close", scope, TRUE)>>]
                         /\ scopeState' = [scopeState EXCEPT ![scope] = NoSession]
                         /\ propagated' = "none"
                      \/ \A message \in Messages, fails \in BOOLEAN :
                            message.type \in
                              SESSION_TERMINUS_ASGI_EVENTS \ {HTTP_RESPONSE_START}
                            => ~handler(scope, message, fails)
      ]_vars

\* a request disconnected before any response started: its session has been
\* closed without a decision and removed; the other scope, which has no
\* session, has received a terminus message
C21_Witness ==
    /\ handlerCfg.kind = "autocommit"
    /\ \E x \in Created :
          /\ Ops(x) = <<"close">>
          /\ scopeState[owner[x]] = NoSession
          /\ \E other \in Scopes \ {owner[x]} :
                /\ terminated[other]
                /\ scopeState[other] = NoSession
                /\ \A y \in Created : owner[y] # other

====
